---- MODULE Spec2Model ----
(***************************************************************************)
(* Model of github-org-mirror: the reconciliation functions of sync.py     *)
(* (find_misplaced_repos, find_missing_repos, find_orphaned_repos) and the *)
(* sync coordinator sync_github_to_local, over a small local directory     *)
(* tree and a small remote listing.                                        *)
(*                                                                         *)
(* A Python dict {org: {name: value}} is modelled as a function from the   *)
(* organization to the sequence of its keys in insertion order; the outer  *)
(* dicts are always filled in the order of config.organizations.  A local  *)
(* path base/org/name is the pair <<org, name>>.                           *)
(*                                                                         *)
(* WatchSpec models watcher.py: OrgMoveHandler.on_moved (filter, debounce  *)
(* under the lock, thread start) and the _process_move threads together    *)
(* with transfer_repo and wait_for_transfer; one task record follows an    *)
(* accepted notification from the lock to the end of its thread.  Time is  *)
(* a global integer clock.                                                 *)
(***************************************************************************)
EXTENDS Integers, Sequences, FiniteSets, TLC

VARIABLES
    config,        \* Config: exclude_repos, auto_update_remotes, clone_protocol
    args,          \* arguments of sync_github_to_local
    gh,            \* per organization, what `gh repo list` answers
    fs,            \* directory at every path base/org/name
    orgDirs,       \* organization directories that exist under base_path
    initial,       \* the disk as it was before the invocation (history)
    local_repos,   \* snapshot built by get_local_repos
    github_repos,  \* snapshot built by get_github_repos
    pc,            \* position inside sync_github_to_local
    todo,          \* findings the current loop still has to process
    result,        \* SyncResult
    log,           \* mutating calls issued so far (history)
    now,           \* time.time()
    seen,          \* move notifications delivered to on_moved so far
    tasks,         \* accepted notifications: on_moved call, then its thread
    pending_moves, \* OrgMoveHandler.pending_moves: move_key -> timestamp
    lock,          \* OrgMoveHandler._lock: 0 when free, else the holding task
    on_transfer,   \* whether an on_transfer callback was given
    watcher,       \* RepoWatcher: observer, _running, run_forever's position
    roundtrip      \* a remote URL being built, parsed and verified

wvars == <<now, seen, tasks, pending_moves, lock, on_transfer>>

xvars == <<watcher, roundtrip>>

vars == <<config, args, gh, fs, orgDirs, initial, local_repos, github_repos,
          pc, todo, result, log, wvars, xvars>>

(* ------------------------------ bounds -------------------------------- *)
MaxLocal == 2      \* directories present under the base path initially
MaxRemote == 2     \* repositories the remote service lists in total

(* ----------------------------- universe ------------------------------- *)
organizations == <<"acme", "other">>
Orgs == {organizations[i] : i \in 1..Len(organizations)}
NameSeq == <<".github", "tools">>
Names == {NameSeq[i] : i \in 1..Len(NameSeq)}
Paths == Orgs \X Names
\* exclude_repos as configured: left out, a tracked name, an unrelated name
ExcludeChoices == {{}, {"tools"}, {"docs"}}
NoDir == [kind |-> "absent"]
NoOrg == "(none)"

Range(s) == {s[i] : i \in 1..Len(s)}
SeqOfNames(S) == SelectSeq(NameSeq, LAMBDA n : n \in S)

(* ------------------------------ utils.py ------------------------------ *)
is_git_repo(path) == fs[path] # NoDir /\ fs[path].git

\* the text of a name as the URL functions see it: the pieces they match on
\* ("github.com", ".git") are tokens of their own
Tokens(name) ==
    CASE name = "" -> <<>>
      [] name = "x.github.com" -> <<"x.", "github.com">>
      [] name = "tools.git" -> <<"tools", ".git">>
      [] OTHER -> <<name>>

build_github_url(owner, repo, protocol) ==
    IF protocol = "ssh"
    THEN <<"git@", "github.com", ":">> \o Tokens(owner) \o <<"/">> \o Tokens(repo) \o <<".git">>
    ELSE <<"https://", "github.com", "/">> \o Tokens(owner) \o <<"/">> \o Tokens(repo)
             \o <<".git">>

(* ----------------------------- config.py ------------------------------ *)
\* Config.__init__: `exclude_repos or [".github"]`
Config(exclude_repos, auto_update_remotes, clone_protocol) ==
    [exclude_repos |-> IF exclude_repos = {} THEN {".github"} ELSE exclude_repos,
     auto_update_remotes |-> auto_update_remotes,
     clone_protocol |-> clone_protocol]

get_repo_path(org, repo) == <<org, repo>>

(* ---------------------------- transfer.py ----------------------------- *)
\* a failed or unparsable listing yields the empty list
list_org_repos(org) ==
    IF gh[org].returncode # 0 THEN <<>> ELSE SeqOfNames(gh[org].names)

(* ------------------------------ sync.py ------------------------------- *)
EmptyResult == [cloned |-> <<>>, moved |-> <<>>, orphaned |-> <<>>, errors |-> <<>>]

get_local_repos ==
    [org \in Orgs |->
        IF org \notin orgDirs THEN <<>>
        ELSE SeqOfNames({n \in Names : is_git_repo(<<org, n>>)})]

\* variant: the exclude list is not consulted
get_github_repos_NoExclude ==
    [org \in Orgs |-> list_org_repos(org)]

\* variant: one failed listing leaves every organization without a remote view
get_github_repos_AbortOnFailure ==
    [org \in Orgs |->
        IF \E o \in Orgs : gh[o].returncode # 0 THEN <<>>
        ELSE SelectSeq(list_org_repos(org), LAMBDA n : n \notin config.exclude_repos)]

\* lines 57-81
get_github_repos ==
    [org \in Orgs |->
        SelectSeq(list_org_repos(org), LAMBDA n : n \notin config.exclude_repos)]

\* inner loop of lines 98-99: github_locations[repo_name] = org
RECURSIVE LocateNames(_, _, _)
LocateNames(locations, org, names) ==
    IF names = <<>> THEN locations
    ELSE LocateNames([locations EXCEPT ![Head(names)] = org], org, Tail(names))

\* outer loop of lines 97-99 over github_repos.items(), from organization i on
RECURSIVE LocateOrgs(_, _, _)
LocateOrgs(locations, github, i) ==
    IF i > Len(organizations) THEN locations
    ELSE LocateOrgs(LocateNames(locations, organizations[i], github[organizations[i]]),
                    github, i + 1)

github_locations(github) == LocateOrgs([n \in Names |-> NoOrg], github, 1)

\* inner loop of lines 103-107
RECURSIVE MisplacedNames(_, _, _, _)
MisplacedNames(misplaced, locations, local_org, names) ==
    IF names = <<>> THEN misplaced
    ELSE LET repo_name == Head(names)
             correct_org == locations[repo_name]
             found == IF correct_org # NoOrg /\ correct_org # local_org
                      THEN Append(misplaced,
                                  <<repo_name, local_org, correct_org,
                                    <<local_org, repo_name>>>>)
                      ELSE misplaced
         IN  MisplacedNames(found, locations, local_org, Tail(names))

RECURSIVE MisplacedOrgs(_, _, _, _)
MisplacedOrgs(misplaced, locations, local, i) ==
    IF i > Len(organizations) THEN misplaced
    ELSE MisplacedOrgs(MisplacedNames(misplaced, locations, organizations[i],
                                      local[organizations[i]]),
                       locations, local, i + 1)

\* Returns: sequence of <<repo_name, current_local_org, correct_org, local_path>>
find_misplaced_repos(local, github) ==
    MisplacedOrgs(<<>>, github_locations(github), local, 1)

RECURSIVE MissingNames(_, _, _, _)
MissingNames(missing, local_org_repos, org, names) ==
    IF names = <<>> THEN missing
    ELSE LET repo_name == Head(names)
             found == IF repo_name \notin Range(local_org_repos)
                      THEN Append(missing,
                                  <<org, repo_name, [name |-> repo_name, owner |-> org]>>)
                      ELSE missing
         IN  MissingNames(found, local_org_repos, org, Tail(names))

RECURSIVE MissingOrgs(_, _, _, _)
MissingOrgs(missing, local, github, i) ==
    IF i > Len(organizations) THEN missing
    ELSE MissingOrgs(MissingNames(missing, local[organizations[i]], organizations[i],
                                  github[organizations[i]]),
                     local, github, i + 1)

\* variant: a name counts as present when any organization holds it locally
find_missing_repos_AnyOrg(local, github) ==
    LET held == UNION {{local[o][i] : i \in 1..Len(local[o])} : o \in DOMAIN local}
        pairs == {<<i, j>> \in (1..Len(organizations)) \X (1..Len(NameSeq)) :
                    /\ NameSeq[j] \in {github[organizations[i]][k] :
                                           k \in 1..Len(github[organizations[i]])}
                    /\ NameSeq[j] \notin held}
        ordered == SelectSeq(
            [k \in 1..(Len(organizations) * Len(NameSeq)) |->
                <<((k - 1) \div Len(NameSeq)) + 1, ((k - 1) % Len(NameSeq)) + 1>>],
            LAMBDA q : q \in pairs)
    IN  [k \in 1..Len(ordered) |->
            <<organizations[ordered[k][1]], NameSeq[ordered[k][2]],
              [name |-> NameSeq[ordered[k][2]], owner |-> organizations[ordered[k][1]]]>>]

\* Returns: sequence of <<org, repo_name, Repository>>
find_missing_repos(local, github) == MissingOrgs(<<>>, local, github, 1)

\* lines 144-146: the set of all names on the remote side
RECURSIVE GithubRepoNames(_, _, _)
GithubRepoNames(names, github, i) ==
    IF i > Len(organizations) THEN names
    ELSE GithubRepoNames(names \cup Range(github[organizations[i]]), github, i + 1)

RECURSIVE OrphanedNames(_, _, _, _)
OrphanedNames(orphaned, github_repo_names, org, names) ==
    IF names = <<>> THEN orphaned
    ELSE LET repo_name == Head(names)
             found == IF repo_name \notin github_repo_names
                      THEN Append(orphaned, <<org, repo_name, <<org, repo_name>>>>)
                      ELSE orphaned
         IN  OrphanedNames(found, github_repo_names, org, Tail(names))

RECURSIVE OrphanedOrgs(_, _, _, _)
OrphanedOrgs(orphaned, github_repo_names, local, i) ==
    IF i > Len(organizations) THEN orphaned
    ELSE OrphanedOrgs(OrphanedNames(orphaned, github_repo_names, organizations[i],
                                    local[organizations[i]]),
                      github_repo_names, local, i + 1)

\* variant: a name is looked up only in the remote set of its own organization
find_orphaned_repos_SameOrg(local, github) ==
    LET pairs == {<<i, j>> \in (1..Len(organizations)) \X (1..Len(NameSeq)) :
                    /\ NameSeq[j] \in {local[organizations[i]][k] :
                                           k \in 1..Len(local[organizations[i]])}
                    /\ NameSeq[j] \notin {github[organizations[i]][k] :
                                              k \in 1..Len(github[organizations[i]])}}
        ordered == SelectSeq(
            [k \in 1..(Len(organizations) * Len(NameSeq)) |->
                <<((k - 1) \div Len(NameSeq)) + 1, ((k - 1) % Len(NameSeq)) + 1>>],
            LAMBDA q : q \in pairs)
    IN  [k \in 1..Len(ordered) |->
            <<organizations[ordered[k][1]], NameSeq[ordered[k][2]],
              <<organizations[ordered[k][1]], NameSeq[ordered[k][2]]>>>>]

\* Returns: sequence of <<org, repo_name, path>>
find_orphaned_repos(local, github) ==
    OrphanedOrgs(<<>>, GithubRepoNames({}, github, 1), local, 1)

(* ------------------------------ initial ------------------------------- *)
None == "None"            \* None where a string is expected
Nothing == <<"None">>      \* None where a path, a URL or a pair is expected

\* RepoWatcher.__init__: no observer, not running; `live` counts the observer
\* threads started and not yet stopped, base_exists is base_path.exists(),
\* rf is the position of run_forever and waited whether its loop has slept
RepoWatcher(exists) ==
    [observer |-> None, running |-> FALSE, live |-> 0, base_exists |-> exists,
     rf |-> "idle", waited |-> FALSE]

\* no URL is being built
NoRoundTrip ==
    [owner |-> None, repo |-> None, protocol |-> None, stage |-> "idle",
     url |-> Nothing, parsed |-> Nothing, verdict |-> None]

WorkingCopy(org, name, isGit) ==
    [kind |-> "dir", git |-> isGit, id |-> <<org, name>>,
     url |-> IF isGit THEN build_github_url(org, name, "ssh") ELSE <<>>,
     inner |-> {}]

Init ==
    \E L \in SUBSET Paths, R \in SUBSET Paths :
      /\ Cardinality(L) <= MaxLocal
      /\ Cardinality(R) <= MaxRemote
      /\ \E NG \in SUBSET L, F \in SUBSET Orgs :
           /\ fs = [p \in Paths |->
                      IF p \in L THEN WorkingCopy(p[1], p[2], p \notin NG) ELSE NoDir]
           /\ orgDirs = {p[1] : p \in L}
           /\ gh = [o \in Orgs |->
                      IF o \in F THEN [returncode |-> 1, names |-> {}]
                      ELSE [returncode |-> 0, names |-> {n \in Names : <<o, n>> \in R}]]
      /\ \E ex \in ExcludeChoices, au \in BOOLEAN, proto \in {"ssh", "https"} :
           config = Config(ex, au, proto)
      /\ args \in [clone_missing : BOOLEAN, move_misplaced : BOOLEAN, dry_run : BOOLEAN]
      /\ initial = [fs |-> fs, orgDirs |-> orgDirs]
      /\ local_repos = [o \in Orgs |-> <<>>]
      /\ github_repos = [o \in Orgs |-> <<>>]
      /\ pc = "start"
      /\ todo = <<>>
      /\ result = EmptyResult
      /\ log = <<>>
      /\ now = 0
      /\ seen = 0
      /\ tasks = <<>>
      /\ pending_moves = <<>>
      /\ lock = 0
      /\ on_transfer = FALSE
      /\ watcher = RepoWatcher(TRUE)
      /\ roundtrip = NoRoundTrip

(* ----------------------- sync_github_to_local ------------------------- *)
\* variant: the organization directories are created also in a dry run
SyncBegin_MkdirAlways ==
    /\ pc = "start"
    /\ LET local == get_local_repos
           github == get_github_repos
       IN  /\ local_repos' = local
           /\ github_repos' = github
           /\ todo' = IF args.move_misplaced
                      THEN find_misplaced_repos(local, github) ELSE <<>>
    /\ orgDirs' = orgDirs \cup Orgs
    /\ log' = log \o [i \in 1..Len(organizations) |-> <<"mkdir", organizations[i]>>]
    /\ pc' = "move"
    /\ UNCHANGED <<xvars, config, args, gh, fs, initial, result,
                   wvars>>

\* lines 173-187: snapshots, organization directories, the misplaced findings
SyncBegin ==
    /\ pc = "start"
    /\ LET local == get_local_repos
           github == get_github_repos
       IN  /\ local_repos' = local
           /\ github_repos' = github
           /\ todo' = IF args.move_misplaced
                      THEN find_misplaced_repos(local, github) ELSE <<>>
    /\ IF ~args.dry_run
       THEN /\ orgDirs' = orgDirs \cup Orgs
            /\ log' = log \o [i \in 1..Len(organizations) |-> <<"mkdir", organizations[i]>>]
       ELSE UNCHANGED <<orgDirs, log>>
    /\ pc' = "move"
    /\ UNCHANGED <<xvars, config, args, gh, fs, initial, result,
                   wvars>>

\* shutil.move(src, dst) when the operating system lets it through:
\* a destination that is a directory receives the source inside it, and
\* raises when dst/basename(src) is already there
MoveRaises(src, dst) == fs[dst] # NoDir /\ fs[dst].inner # {}

MoveEffect(src, dst) ==
    IF fs[dst] # NoDir
    THEN [fs EXCEPT ![src] = NoDir, ![dst].inner = {fs[src].id}]
    ELSE [fs EXCEPT ![src] = NoDir, ![dst] = fs[src]]

\* variant: the first failure ends the loop
RemainingAfter_Abort(findings, raised) == IF raised THEN <<>> ELSE Tail(findings)

\* lines 188, 205-208 and 213, 221-222: a failure is recorded and the loop
\* goes on with the next finding
RemainingAfter(findings, raised) == Tail(findings)

\* lines 188-208: one iteration of the loop over the misplaced findings
MoveStep ==
    /\ pc = "move"
    /\ todo # <<>>
    /\ LET repo_name == Head(todo)[1]
           from_org == Head(todo)[2]
           to_org == Head(todo)[3]
           current_path == Head(todo)[4]
           new_path == get_repo_path(to_org, repo_name)
           new_url == build_github_url(to_org, repo_name, config.clone_protocol)
       IN  IF args.dry_run
           THEN /\ result' = [result EXCEPT !.moved = Append(@, <<repo_name, from_org, to_org>>)]
                /\ UNCHANGED <<fs, log>>
           ELSE \E os_ok \in BOOLEAN, git_ok \in BOOLEAN :
                  IF ~os_ok \/ MoveRaises(current_path, new_path)
                  THEN /\ git_ok
                       /\ result' = [result EXCEPT !.errors =
                                       Append(@, <<"Failed to move", repo_name>>)]
                       /\ log' = Append(log, <<"move", current_path, new_path, FALSE>>)
                       /\ UNCHANGED fs
                  ELSE LET moved_fs == MoveEffect(current_path, new_path)
                           rewrites == config.auto_update_remotes
                                       /\ moved_fs[new_path].git /\ git_ok
                       IN  /\ (config.auto_update_remotes /\ moved_fs[new_path].git) \/ git_ok
                           /\ fs' = IF rewrites
                                    THEN [moved_fs EXCEPT ![new_path].url = new_url]
                                    ELSE moved_fs
                           /\ log' = log \o <<<<"move", current_path, new_path, TRUE>>>>
                                         \o (IF rewrites
                                             THEN <<<<"set-url", new_path, new_url>>>>
                                             ELSE <<>>)
                           /\ result' = [result EXCEPT !.moved =
                                           Append(@, <<repo_name, from_org, to_org>>)]
    /\ todo' = RemainingAfter(todo, Len(result'.errors) > Len(result.errors))
    /\ UNCHANGED <<xvars, config, args, gh, orgDirs, initial, local_repos, github_repos, pc,
                   wvars>>

\* lines 210-212: the misplaced loop is over, the missing findings are computed
CloneBegin ==
    /\ pc = "move"
    /\ todo = <<>>
    /\ todo' = IF args.clone_missing
               THEN find_missing_repos(local_repos, github_repos) ELSE <<>>
    /\ pc' = "clone"
    /\ UNCHANGED <<xvars, config, args, gh, fs, orgDirs, initial, local_repos, github_repos,
                   result, log,
                   wvars>>

\* variant: clone_repo without the "already exists" test of transfer.py 150-152
CloneStep_ExistsIsError ==
    /\ pc = "clone"
    /\ todo # <<>>
    /\ LET org == Head(todo)[1]
           repo_name == Head(todo)[2]
           dest_path == get_repo_path(org, repo_name)
           url == build_github_url(org, repo_name, config.clone_protocol)
       IN  IF args.dry_run
           THEN /\ result' = [result EXCEPT !.cloned = Append(@, <<org, repo_name>>)]
                /\ UNCHANGED <<fs, log>>
           ELSE \E git_ok \in BOOLEAN :
                  IF fs[dest_path] # NoDir
                  THEN /\ git_ok
                       /\ log' = Append(log, <<"clone", org, repo_name, "already exists">>)
                       /\ result' = [result EXCEPT !.errors =
                                       Append(@, <<"Failed to clone", org, repo_name>>)]
                       /\ UNCHANGED fs
                  ELSE IF git_ok
                  THEN /\ fs' = [fs EXCEPT ![dest_path] =
                                   [kind |-> "dir", git |-> TRUE, id |-> <<"clone", org, repo_name>>,
                                    url |-> url, inner |-> {}]]
                       /\ log' = Append(log, <<"clone", org, repo_name, "ok">>)
                       /\ result' = [result EXCEPT !.cloned = Append(@, <<org, repo_name>>)]
                  ELSE /\ log' = Append(log, <<"clone", org, repo_name, "failed">>)
                       /\ result' = [result EXCEPT !.errors =
                                       Append(@, <<"Failed to clone", org, repo_name>>)]
                       /\ UNCHANGED fs
    /\ todo' = RemainingAfter(todo, Len(result'.errors) > Len(result.errors))
    /\ UNCHANGED <<xvars, config, args, gh, orgDirs, initial, local_repos, github_repos, pc,
                   wvars>>

\* lines 213-222 with clone_repo (transfer.py 133-157): one missing finding
CloneStep ==
    /\ pc = "clone"
    /\ todo # <<>>
    /\ LET org == Head(todo)[1]
           repo_name == Head(todo)[2]
           dest_path == get_repo_path(org, repo_name)
           url == build_github_url(org, repo_name, config.clone_protocol)
       IN  IF args.dry_run
           THEN /\ result' = [result EXCEPT !.cloned = Append(@, <<org, repo_name>>)]
                /\ UNCHANGED <<fs, log>>
           ELSE \E git_ok \in BOOLEAN :
                  IF fs[dest_path] # NoDir
                  THEN \* git: "destination path already exists"; counted as cloned
                       /\ git_ok
                       /\ log' = Append(log, <<"clone", org, repo_name, "already exists">>)
                       /\ result' = [result EXCEPT !.cloned = Append(@, <<org, repo_name>>)]
                       /\ UNCHANGED fs
                  ELSE IF git_ok
                  THEN /\ fs' = [fs EXCEPT ![dest_path] =
                                   [kind |-> "dir", git |-> TRUE, id |-> <<"clone", org, repo_name>>,
                                    url |-> url, inner |-> {}]]
                       /\ log' = Append(log, <<"clone", org, repo_name, "ok">>)
                       /\ result' = [result EXCEPT !.cloned = Append(@, <<org, repo_name>>)]
                  ELSE /\ log' = Append(log, <<"clone", org, repo_name, "failed">>)
                       /\ result' = [result EXCEPT !.errors =
                                       Append(@, <<"Failed to clone", org, repo_name>>)]
                       /\ UNCHANGED fs
    /\ todo' = RemainingAfter(todo, Len(result'.errors) > Len(result.errors))
    /\ UNCHANGED <<xvars, config, args, gh, orgDirs, initial, local_repos, github_repos, pc,
                   wvars>>

\* variant: the orphan report sits inside the `if clone_missing:` block
ReportOrphans_OnlyWhenCloning ==
    /\ pc = "clone"
    /\ todo = <<>>
    /\ LET orphaned == find_orphaned_repos(local_repos, github_repos)
       IN  result' = [result EXCEPT !.orphaned =
                        IF args.clone_missing
                        THEN [i \in 1..Len(orphaned) |-> <<orphaned[i][1], orphaned[i][2]>>]
                        ELSE <<>>]
    /\ pc' = "done"
    /\ UNCHANGED <<xvars, config, args, gh, fs, orgDirs, initial, local_repos, github_repos,
                   todo, log,
                   wvars>>

\* lines 224-231: orphans are reported, then the result is returned
ReportOrphans ==
    /\ pc = "clone"
    /\ todo = <<>>
    /\ LET orphaned == find_orphaned_repos(local_repos, github_repos)
       IN  result' = [result EXCEPT !.orphaned =
                        [i \in 1..Len(orphaned) |-> <<orphaned[i][1], orphaned[i][2]>>]]
    /\ pc' = "done"
    /\ UNCHANGED <<xvars, config, args, gh, fs, orgDirs, initial, local_repos, github_repos,
                   todo, log,
                   wvars>>

Next == SyncBegin \/ MoveStep \/ CloneBegin \/ CloneStep \/ ReportOrphans

Spec == Init /\ [][Next]_vars

(* ======================= properties of sync.py ======================== *)
\* the three findings of the snapshots the invocation holds
Misplaced == find_misplaced_repos(local_repos, github_repos)
Missing == find_missing_repos(local_repos, github_repos)
Orphaned == find_orphaned_repos(local_repos, github_repos)

MisplacedNameSet == {Misplaced[i][1] : i \in 1..Len(Misplaced)}
MissingNameSet == {Missing[i][2] : i \in 1..Len(Missing)}
OrphanedNameSet == {Orphaned[i][2] : i \in 1..Len(Orphaned)}

LocalAt(o) == Range(local_repos[o])
RemoteAt(o) == Range(github_repos[o])
SnapshotsBuilt == pc # "start"

\* C1: every repository name is in at most one of the Misplaced, Missing and
\* Orphaned findings of the same two snapshots, and in none of them when every
\* organization holds it locally exactly where the remote side lists it.
C1_PartitionTotality ==
    \A n \in Names :
      /\ ~(n \in MisplacedNameSet /\ n \in MissingNameSet)
      /\ ~(n \in MisplacedNameSet /\ n \in OrphanedNameSet)
      /\ ~(n \in MissingNameSet /\ n \in OrphanedNameSet)
      /\ (\A o \in Orgs : (n \in LocalAt(o)) <=> (n \in RemoteAt(o)))
            => n \notin MisplacedNameSet \cup MissingNameSet \cup OrphanedNameSet

\* C2: a name reported Orphaned is in the remote set of no organization, so
\* it is neither Missing nor Misplaced under any organization.
C2_OrphanedAbsentFromRemote ==
    \A i \in 1..Len(Orphaned) :
      /\ \A o \in Orgs : Orphaned[i][2] \notin RemoteAt(o)
      /\ Orphaned[i][2] \notin MissingNameSet
      /\ Orphaned[i][2] \notin MisplacedNameSet

\* C2 witness: an orphan is reported next to a Missing and a Misplaced finding.
C2_Witness == Orphaned # <<>> /\ Missing # <<>> /\ Misplaced # <<>>

\* C3: a local entry whose name is in the remote set of the organization it
\* lives under gets no Misplaced finding, also when another organization
\* lists the same name.
C3_MisplacedOnlyIfDisagrees ==
    \A o \in Orgs : \A n \in LocalAt(o) :
      n \in RemoteAt(o)
        => ~\E i \in 1..Len(Misplaced) : Misplaced[i][1] = n /\ Misplaced[i][2] = o

\* C4: once the remote snapshot is built, a name of the exclude list is in no
\* Missing and no Misplaced finding, and every local entry of that name is
\* reported Orphaned.
C4_ExclusionSemantics ==
    SnapshotsBuilt =>
      \A n \in config.exclude_repos :
        /\ n \notin MissingNameSet
        /\ n \notin MisplacedNameSet
        /\ \A o \in Orgs : n \in LocalAt(o) => <<o, n, <<o, n>>>> \in Range(Orphaned)

\* C4 witness: an excluded name is listed by the remote service and is also
\* present locally.
C4_Witness ==
    /\ SnapshotsBuilt
    /\ \E n \in config.exclude_repos :
         /\ \E o \in Orgs : gh[o].returncode = 0 /\ n \in gh[o].names
         /\ \E o \in Orgs : n \in LocalAt(o)

\* reference results, written as sets over the snapshots
RefIndexedOrg(n) ==
    LET listing == {i \in 1..Len(organizations) : n \in RemoteAt(organizations[i])}
    IN  IF listing = {} THEN NoOrg
        ELSE organizations[CHOOSE i \in listing : \A j \in listing : j <= i]

RefMissing == {q \in Paths : q[2] \in RemoteAt(q[1]) /\ q[2] \notin LocalAt(q[1])}

RefMisplaced ==
    {<<q[2], q[1], RefIndexedOrg(q[2]), q>> :
        q \in {r \in Paths : /\ r[2] \in LocalAt(r[1])
                             /\ RefIndexedOrg(r[2]) # NoOrg
                             /\ RefIndexedOrg(r[2]) # r[1]}}

RefOrphaned ==
    {q \in Paths : q[2] \in LocalAt(q[1]) /\ \A o \in Orgs : q[2] \notin RemoteAt(o)}

\* C5: Missing is exactly the (org, name) listed remotely and absent locally
\* under that org; Misplaced is exactly the local entries whose name the last
\* listing organization of the index maps to another org, reported with that
\* org; Orphaned is exactly the local entries whose name no organization lists;
\* every finding is reported once.
C5_ReferenceResult ==
    /\ {<<Missing[i][1], Missing[i][2]>> : i \in 1..Len(Missing)} = RefMissing
    /\ \A i \in 1..Len(Missing) :
         Missing[i][3] = [name |-> Missing[i][2], owner |-> Missing[i][1]]
    /\ Len(Missing) = Cardinality(RefMissing)
    /\ Range(Misplaced) = RefMisplaced
    /\ Len(Misplaced) = Cardinality(RefMisplaced)
    /\ {<<Orphaned[i][1], Orphaned[i][2]>> : i \in 1..Len(Orphaned)} = RefOrphaned
    /\ \A i \in 1..Len(Orphaned) : Orphaned[i][3] = <<Orphaned[i][1], Orphaned[i][2]>>
    /\ Len(Orphaned) = Cardinality(RefOrphaned)

\* C5 witness: snapshots in which the remote side lists one name under two
\* organizations and all three findings are non-empty.
C5_Witness ==
    /\ SnapshotsBuilt
    /\ RefMissing # {} /\ RefMisplaced # {} /\ RefOrphaned # {}

\* C5 witness of the index: a name listed under two organizations.
C5_IndexCase ==
    \E n \in Names : \A o \in Orgs : n \in RemoteAt(o)

MovedNames == {result.moved[i][1] : i \in 1..Len(result.moved)}
ClonedNames == {result.cloned[i][2] : i \in 1..Len(result.cloned)}
CloneRequests == {i \in 1..Len(log) : log[i][1] = "clone"}
FailedMoves == {i \in 1..Len(log) : log[i][1] = "move" /\ ~log[i][4]}
FailedClones == {i \in 1..Len(log) : log[i][1] = "clone" /\ log[i][4] = "failed"}

\* C7: within one invocation no repository name recorded in result.moved is
\* the target of a clone request or recorded in result.cloned.
C7_MovesAndClonesDisjoint ==
    /\ MovedNames \cap ClonedNames = {}
    /\ \A i \in CloneRequests : log[i][3] \notin MovedNames

IntendedMoves == IF args.move_misplaced THEN RefMisplaced ELSE {}
IntendedClones == IF args.clone_missing THEN RefMissing ELSE {}

\* C8: with dry_run no directory is created, no folder is moved, no remote
\* URL is rewritten and no clone is requested, whatever clone_missing and
\* move_misplaced are; the returned result lists every move and every clone
\* the enabled flags ask for, and every orphan.
C8_DryRunNoMutation ==
    args.dry_run =>
      /\ fs = initial.fs
      /\ orgDirs = initial.orgDirs
      /\ log = <<>>
      /\ pc = "done" =>
           /\ Range(result.moved) = {<<f[1], f[2], f[3]>> : f \in IntendedMoves}
           /\ Range(result.cloned) = IntendedClones
           /\ Range(result.orphaned) = RefOrphaned
           /\ result.errors = <<>>

\* C8 witness: a finished dry run that reports a move, a clone and an orphan
\* while an organization directory is still absent from the disk.
C8_Witness ==
    /\ args.dry_run /\ pc = "done"
    /\ result.moved # <<>> /\ result.cloned # <<>> /\ result.orphaned # <<>>
    /\ orgDirs # Orgs

\* C9: in a finished run that applies changes, every Misplaced finding is
\* either in result.moved or has one failed relocation, never both; every
\* Missing finding is either in result.cloned or has one failed clone; one error
\* entry is recorded per failure.
C9_FailureIsolation ==
    (pc = "done" /\ ~args.dry_run) =>
      /\ \A f \in IntendedMoves :
           (<<f[1], f[2], f[3]>> \in Range(result.moved))
             # (\E i \in FailedMoves : log[i][2] = f[4])
      /\ Len(result.moved) + Cardinality(FailedMoves) = Cardinality(IntendedMoves)
      /\ \A q \in IntendedClones :
           (q \in Range(result.cloned))
             # (\E i \in FailedClones : <<log[i][2], log[i][3]>> = q)
      /\ Len(result.cloned) + Cardinality(FailedClones) = Cardinality(IntendedClones)
      /\ Len(result.errors) = Cardinality(FailedMoves) + Cardinality(FailedClones)
      /\ \A q \in IntendedClones :
           Cardinality({i \in 1..Len(result.errors) :
                          result.errors[i] = <<"Failed to clone", q[1], q[2]>>})
             = Cardinality({i \in FailedClones : <<log[i][2], log[i][3]>> = q})

\* C9 witness: a finished run in which one relocation failed and another
\* finding was still processed successfully.
C9_Witness ==
    /\ pc = "done" /\ ~args.dry_run
    /\ FailedMoves # {}
    /\ result.moved # <<>>

\* C9 witness for clones: one clone failed and another succeeded.
C9_CloneCase ==
    /\ pc = "done" /\ ~args.dry_run
    /\ FailedClones # {}
    /\ result.cloned # <<>>

\* C10: the folder and remote URL of every repository reported Orphaned stay
\* as they were before the invocation, and the returned result lists every
\* orphan once, whatever clone_missing, move_misplaced and dry_run are.
C10_OrphansOnlyReported ==
    SnapshotsBuilt =>
      /\ \A q \in RefOrphaned : fs[q] = initial.fs[q]
      /\ pc = "done" =>
           /\ Range(result.orphaned) = RefOrphaned
           /\ Len(result.orphaned) = Cardinality(RefOrphaned)

\* C10 witness: a finished run that relocated a repository, cloned another
\* and reported an orphan.
C10_Witness ==
    /\ pc = "done" /\ ~args.dry_run
    /\ RefOrphaned # {}
    /\ \E i \in 1..Len(log) : log[i][1] = "move" /\ log[i][4]
    /\ \E i \in 1..Len(log) : log[i][1] = "clone"

CloneOutcomes(outcome) ==
    {<<log[i][2], log[i][3]>> : i \in {j \in CloneRequests : log[j][4] = outcome}}
CloneErrors ==
    {i \in 1..Len(result.errors) : result.errors[i][1] = "Failed to clone"}

\* C11: a clone that git refuses because the destination already exists is
\* recorded in result.cloned without an error entry; a clone that fails for
\* another reason is not recorded as cloned and adds one error entry naming
\* that repository.
C11_ExistingDestinationIsSuccess ==
    /\ \A q \in CloneOutcomes("already exists") :
         /\ q \in Range(result.cloned)
         /\ <<"Failed to clone", q[1], q[2]>> \notin Range(result.errors)
    /\ \A q \in CloneOutcomes("failed") :
         /\ q \notin Range(result.cloned)
         /\ Cardinality({i \in CloneErrors : result.errors[i] = <<"Failed to clone", q[1], q[2]>>}) = 1
    /\ Cardinality(CloneErrors) = Cardinality(FailedClones)

\* C11 witness: one clone met an existing destination and another failed.
C11_Witness ==
    /\ CloneOutcomes("already exists") # {}
    /\ CloneOutcomes("failed") # {}

FailedOrgs == {o \in Orgs : gh[o].returncode # 0}

\* C12: when the listing of an organization fails, its remote view is empty
\* while every other organization keeps its listed (non-excluded) names; no
\* repository is Missing under the failed organization, and each of its local
\* repositories whose name no other organization lists is Orphaned.
C12_ListFailureIsolated ==
    SnapshotsBuilt =>
      /\ \A o \in FailedOrgs :
           /\ github_repos[o] = <<>>
           /\ \A i \in 1..Len(Missing) : Missing[i][1] # o
           /\ \A n \in LocalAt(o) :
                (\A o2 \in Orgs \ {o} : n \notin RemoteAt(o2))
                  => <<o, n, <<o, n>>>> \in Range(Orphaned)
      /\ \A o \in Orgs \ FailedOrgs :
           RemoteAt(o) = gh[o].names \ config.exclude_repos

\* C12 witness: one listing failed for an organization holding a local
\* repository, the other organization's listing is non-empty and a finding
\* is reported for it.
C12_Witness ==
    /\ SnapshotsBuilt
    /\ \E o \in FailedOrgs :
         /\ LocalAt(o) # {}
         /\ \E o2 \in Orgs \ FailedOrgs : RemoteAt(o2) # {} /\ Missing # <<>>

(* ======================== watcher.py: the model ======================= *)
MaxEvents == 2          \* move notifications delivered in one watch session
PollTimeout == 3        \* timeout handed to wait_for_transfer, in time units
MaxTime == PollTimeout
debounce_seconds == 2   \* OrgMoveHandler.debounce_seconds
PollInterval == 2       \* time.sleep(2) of wait_for_transfer

NoResponse == [returncode |-> -1, stderr |-> {}]
base_path == <<"base">>
AbsPath(q) == base_path \o q
\* where a notification may say a folder came from: two repository folders,
\* a folder inside a repository, a folder outside the watched tree
SrcPaths ==
    {AbsPath(<<"acme", "tools">>), AbsPath(<<"other", ".github">>),
     <<"base", "other", "tools", "src">>, <<"tmp", "tools">>}
\* where it may say the folder went: the working copies, the plain folder,
\* an organization folder itself
DestPaths ==
    {AbsPath(<<"other", "tools">>), AbsPath(<<"acme", ".github">>),
     AbsPath(<<"other", ".github">>), <<"base", "acme">>}
Events ==
    [kind : {"DirMovedEvent"}, src_path : SrcPaths, dest_path : DestPaths]
      \cup {[kind |-> "FileMovedEvent", src_path |-> AbsPath(<<"acme", "tools">>),
              dest_path |-> AbsPath(<<"other", "tools">>)]}

(* ------------------------------ utils.py ------------------------------ *)
\* str.split("/") over the tokens of a path: the parts between separators
RECURSIVE SplitParts(_, _, _)
SplitParts(tokens, part, parts) ==
    IF tokens = <<>> THEN Append(parts, part)
    ELSE IF Head(tokens) = "/"
         THEN SplitParts(Tail(tokens), <<>>, Append(parts, part))
         ELSE SplitParts(Tail(tokens), Append(part, Head(tokens)), parts)

\* a part as a string: its tokens joined
RECURSIVE PartText(_)
PartText(part) ==
    IF part = <<>> THEN "" ELSE Head(part) \o PartText(Tail(part))

StripDotGit(path) ==
    IF path # <<>> /\ path[Len(path)] = ".git" THEN SubSeq(path, 1, Len(path) - 1) ELSE path

SshPrefix == <<"git@", "github.com", ":">>
HostSlash == <<"github.com", "/">>
StartsWith(text, prefix) ==
    Len(text) >= Len(prefix) /\ SubSeq(text, 1, Len(prefix)) = prefix
\* where the text `sep` begins inside `text`
Occurrences(text, sep) ==
    {i \in 1..(Len(text) - Len(sep) + 1) : SubSeq(text, i, i + Len(sep) - 1) = sep}
First(S) == CHOOSE i \in S : \A j \in S : i <= j

\* url.split("github.com/")[1]: what lies between the first and the second
\* occurrence of the text
AfterHost(url) ==
    LET rest == SubSeq(url, First(Occurrences(url, HostSlash)) + Len(HostSlash), Len(url))
        later == Occurrences(rest, HostSlash)
    IN  IF later = {} THEN rest ELSE SubSeq(rest, 1, First(later) - 1)

\* variant: the ".git" ending is left on the repository name
parse_github_remote_KeepDotGit(url) ==
    LET ssh_parts == SplitParts(SubSeq(url, Len(SshPrefix) + 1, Len(url)), <<>>, <<>>)
    IN  IF StartsWith(url, SshPrefix) /\ Len(ssh_parts) = 2
        THEN <<PartText(ssh_parts[1]), PartText(ssh_parts[2])>>
        ELSE IF Occurrences(url, HostSlash) # {}
        THEN LET parts == SplitParts(AfterHost(url), <<>>, <<>>)
             IN  IF Len(parts) >= 2
                 THEN <<PartText(parts[1]), PartText(parts[2])>>
                 ELSE Nothing
        ELSE Nothing

\* utils.py 49-69: (owner, repo) or None
parse_github_remote(url) ==
    LET ssh_parts ==
            SplitParts(StripDotGit(SubSeq(url, Len(SshPrefix) + 1, Len(url))), <<>>, <<>>)
    IN  IF StartsWith(url, SshPrefix) /\ Len(ssh_parts) = 2
        THEN <<PartText(ssh_parts[1]), PartText(ssh_parts[2])>>
        ELSE IF Occurrences(url, HostSlash) # {}
        THEN LET parts == SplitParts(StripDotGit(AfterHost(url)), <<>>, <<>>)
             IN  IF Len(parts) >= 2
                 THEN <<PartText(parts[1]), PartText(parts[2])>>
                 ELSE Nothing
        ELSE Nothing

\* Path.relative_to(parent): the remaining parts, or None for ValueError
relative_to(path, parent) ==
    IF Len(path) >= Len(parent) /\ SubSeq(path, 1, Len(parent)) = parent
    THEN SubSeq(path, Len(parent) + 1, Len(path))
    ELSE Nothing

\* is_git_repo for a path of the watched tree: the disk holds only folders
\* base/org/name
is_git_dir(path) ==
    LET rel == relative_to(path, base_path)
    IN  /\ rel # Nothing
        /\ Len(rel) = 2
        /\ rel \in Paths
        /\ is_git_repo(rel)

\* utils.py 18-31: the origin URL, or None
get_repo_remote_url(path) ==
    IF ~is_git_dir(path) THEN Nothing ELSE fs[relative_to(path, base_path)].url

(* ----------------------------- watcher.py ----------------------------- *)
\* lines 39-48
get_org_from_path(path) ==
    LET rel_path == relative_to(path, base_path)
    IN  IF rel_path # Nothing /\ rel_path # <<>> THEN rel_path[1] ELSE None

\* lines 50-56
is_direct_child(path, parent) ==
    LET rel_path == relative_to(path, parent)
    IN  rel_path # Nothing /\ Len(rel_path) = 1

\* variant: an in-place rename inside one organization is not filtered out
on_moved_filter_SameOrgPasses(event) ==
    LET src_org == get_org_from_path(event.src_path)
        dest_org == get_org_from_path(event.dest_path)
    IN  IF event.kind # "DirMovedEvent" THEN "not a directory move"
        ELSE IF src_org = None \/ dest_org = None THEN "outside base_path"
        ELSE IF ~is_direct_child(event.src_path, base_path \o <<src_org>>)
                \/ ~is_direct_child(event.dest_path, base_path \o <<dest_org>>)
        THEN "not repo-level"
        ELSE IF ~is_git_dir(event.dest_path) THEN "not a git repo"
        ELSE "accept"

\* lines 60-91: the early returns of on_moved, in their order
on_moved_filter(event) ==
    LET src_org == get_org_from_path(event.src_path)
        dest_org == get_org_from_path(event.dest_path)
    IN  IF event.kind # "DirMovedEvent" THEN "not a directory move"
        ELSE IF src_org = None \/ dest_org = None THEN "outside base_path"
        ELSE IF ~is_direct_child(event.src_path, base_path \o <<src_org>>)
                \/ ~is_direct_child(event.dest_path, base_path \o <<dest_org>>)
        THEN "not repo-level"
        ELSE IF src_org = dest_org THEN "renamed within org"
        ELSE IF ~is_git_dir(event.dest_path) THEN "not a git repo"
        ELSE "accept"

\* line 94: f"{src_path}:{dest_path}"
move_key(task) == task.src_path \o <<":">> \o task.dest_path

NewTask(event) ==
    [event |-> event,
     src_path |-> event.src_path, dest_path |-> event.dest_path,
     src_org |-> get_org_from_path(event.src_path),
     dest_org |-> get_org_from_path(event.dest_path),
     pc |-> "lock", t |-> -1,
     remote_url |-> Nothing, repo |-> None,
     response |-> NoResponse, requests |-> 0,
     start |-> -1, wake |-> -1, lookups |-> 0, found |-> FALSE,
     rewrote |-> FALSE, called |-> FALSE, callback_args |-> Nothing]

\* lines 58-94: a notification arrives and passes or fails the filter; the
\* session delivers `limit` notifications at most
Notify(limit) ==
    /\ pc = "watch"
    /\ seen < limit
    /\ seen' = seen + 1
    /\ \E event \in Events :
         tasks' = IF on_moved_filter(event) = "accept"
                  THEN Append(tasks, NewTask(event)) ELSE tasks
    /\ UNCHANGED <<xvars, config, args, gh, fs, orgDirs, initial, local_repos, github_repos,
                   pc, todo, result, log, now, pending_moves, lock, on_transfer>>

OnMovedFilter == Notify(MaxEvents)

\* variant: the lock is entered without waiting for its holder
OnMovedLock_NoMutex(i) ==
    /\ pc = "watch"
    /\ tasks[i].pc = "lock"
    /\ lock' = i
    /\ tasks' = [tasks EXCEPT ![i].pc = "check"]
    /\ UNCHANGED <<xvars, config, args, gh, fs, orgDirs, initial, local_repos, github_repos,
                   pc, todo, result, log, now, seen, pending_moves, on_transfer>>

\* line 95: with self._lock
OnMovedLock(i) ==
    /\ pc = "watch"
    /\ tasks[i].pc = "lock"
    /\ lock = 0
    /\ lock' = i
    /\ tasks' = [tasks EXCEPT ![i].pc = "check"]
    /\ UNCHANGED <<xvars, config, args, gh, fs, orgDirs, initial, local_repos, github_repos,
                   pc, todo, result, log, now, seen, pending_moves, on_transfer>>

\* variant: a key once recorded is suppressed for good
Debounced_WhileRecorded(moves, key, time) ==
    key \in DOMAIN moves

\* variant: a repeat exactly debounce_seconds later is still suppressed
Debounced_Inclusive(moves, key, time) ==
    key \in DOMAIN moves /\ time - moves[key] <= debounce_seconds

\* lines 97-98
Debounced(moves, key, time) ==
    key \in DOMAIN moves /\ time - moves[key] < debounce_seconds

\* variant: a suppressed repeat refreshes the recorded time
OnMovedCheck_RefreshOnRepeat(i) ==
    /\ pc = "watch"
    /\ tasks[i].pc = "check"
    /\ IF Debounced(pending_moves, move_key(tasks[i]), now)
       THEN /\ tasks' = [tasks EXCEPT ![i].pc = "suppressed", ![i].t = now]
            /\ pending_moves' = (move_key(tasks[i]) :> now) @@ pending_moves
            /\ lock' = 0
       ELSE /\ tasks' = [tasks EXCEPT ![i].pc = "record", ![i].t = now]
            /\ UNCHANGED <<lock, pending_moves>>
    /\ UNCHANGED <<xvars, config, args, gh, fs, orgDirs, initial, local_repos, github_repos,
                   pc, todo, result, log, now, seen, on_transfer>>

\* lines 96-99: the time is read and the key looked up; a repeat returns
OnMovedCheck(i) ==
    /\ pc = "watch"
    /\ tasks[i].pc = "check"
    /\ IF Debounced(pending_moves, move_key(tasks[i]), now)
       THEN /\ tasks' = [tasks EXCEPT ![i].pc = "suppressed", ![i].t = now]
            /\ lock' = 0
       ELSE /\ tasks' = [tasks EXCEPT ![i].pc = "record", ![i].t = now]
            /\ UNCHANGED lock
    /\ UNCHANGED <<xvars, config, args, gh, fs, orgDirs, initial, local_repos, github_repos,
                   pc, todo, result, log, now, seen, pending_moves, on_transfer>>

\* variant: the lock is still held when the with-block has been left
OnMovedRecord_KeepLock(i) ==
    /\ pc = "watch"
    /\ tasks[i].pc = "record"
    /\ pending_moves' = (move_key(tasks[i]) :> tasks[i].t) @@ pending_moves
    /\ tasks' = [tasks EXCEPT ![i].pc = "resolve"]
    /\ UNCHANGED <<xvars, config, args, gh, fs, orgDirs, initial, local_repos, github_repos,
                   pc, todo, result, log, now, seen, lock, on_transfer>>

\* lines 100-108: the sighting is recorded, the with-block is left and the
\* thread running _process_move is started
OnMovedRecord(i) ==
    /\ pc = "watch"
    /\ tasks[i].pc = "record"
    /\ pending_moves' = (move_key(tasks[i]) :> tasks[i].t) @@ pending_moves
    /\ lock' = 0
    /\ tasks' = [tasks EXCEPT ![i].pc = "resolve"]
    /\ UNCHANGED <<xvars, config, args, gh, fs, orgDirs, initial, local_repos, github_repos,
                   pc, todo, result, log, now, seen, on_transfer>>

(* ---------------------------- transfer.py ----------------------------- *)
\* what `gh api .../transfer` can answer: the return code and the phrases
\* its lower-cased error text contains
TransferResponses ==
    {[returncode |-> 0, stderr |-> {}],
     [returncode |-> 1, stderr |-> {"transfer is already pending"}],
     [returncode |-> 1, stderr |-> {"must wait"}],
     [returncode |-> 1, stderr |-> {"cooldown"}],
     [returncode |-> 1, stderr |-> {}]}

\* variant: an already pending transfer is reported as a failure
transfer_repo_PendingFails(response) == response.returncode = 0

\* variant: a cooldown is only warned about
transfer_repo_CooldownPasses(response) ==
    IF response.returncode # 0
    THEN IF "transfer is already pending" \in response.stderr THEN TRUE
         ELSE IF "must wait" \in response.stderr \/ "cooldown" \in response.stderr
         THEN TRUE
         ELSE FALSE
    ELSE TRUE

\* transfer.py 99-111: the value transfer_repo returns for an answer
transfer_repo(response) ==
    IF response.returncode # 0
    THEN IF "transfer is already pending" \in response.stderr THEN TRUE
         ELSE IF "must wait" \in response.stderr \/ "cooldown" \in response.stderr
         THEN FALSE
         ELSE FALSE
    ELSE TRUE

(* ------------------------ _process_move thread ------------------------ *)
\* variant: the owner found in the URL is not compared with src_org
ResolveOutcome_NoOwnerCheck(remote_url, src_org) ==
    IF remote_url = Nothing \/ remote_url = <<>> THEN "failed_resolve"
    ELSE IF parse_github_remote(remote_url) = Nothing THEN "failed_resolve"
    ELSE "transfer"

\* watcher.py 117-135: where the thread goes after reading the remote URL
ResolveOutcome(remote_url, src_org) ==
    IF remote_url = Nothing \/ remote_url = <<>> THEN "failed_resolve"
    ELSE IF parse_github_remote(remote_url) = Nothing THEN "failed_resolve"
    ELSE IF parse_github_remote(remote_url)[1] # src_org THEN "failed_owner"
    ELSE "transfer"

\* lines 114-137
Resolve(i) ==
    /\ pc = "watch"
    /\ tasks[i].pc = "resolve"
    /\ LET remote_url == get_repo_remote_url(tasks[i].dest_path)
           next == ResolveOutcome(remote_url, tasks[i].src_org)
       IN  tasks' = [tasks EXCEPT
                       ![i].remote_url = remote_url,
                       ![i].repo = IF next = "failed_resolve" THEN None
                                   ELSE parse_github_remote(remote_url)[2],
                       ![i].pc = next]
    /\ UNCHANGED <<xvars, config, args, gh, fs, orgDirs, initial, local_repos, github_repos,
                   pc, todo, result, log, now, seen, pending_moves, lock, on_transfer>>

\* watcher.py 140-142 with transfer_repo: the request is sent and answered;
\* on success wait_for_transfer is entered and reads its start time
Transfer(i) ==
    /\ pc = "watch"
    /\ tasks[i].pc = "transfer"
    /\ \E response \in TransferResponses :
         tasks' = [tasks EXCEPT
                     ![i].response = response,
                     ![i].requests = @ + 1,
                     ![i].start = IF transfer_repo(response) THEN now ELSE @,
                     ![i].wake = IF transfer_repo(response) THEN now ELSE @,
                     ![i].pc = IF transfer_repo(response) THEN "loop" ELSE "transfer_failed"]
    /\ UNCHANGED <<xvars, config, args, gh, fs, orgDirs, initial, local_repos, github_repos,
                   pc, todo, result, log, now, seen, pending_moves, lock, on_transfer>>

\* return codes of `gh repo view`: found, not found, authentication or
\* transport trouble
LookupAnswers == {0, 1, 4}

\* variant: running out of time counts as a confirmation
Poll_TimeoutConfirms(i) ==
    /\ pc = "watch"
    /\ tasks[i].pc = "loop"
    /\ now >= tasks[i].wake
    /\ IF now - tasks[i].start < PollTimeout
       THEN \E returncode \in LookupAnswers :
              tasks' = [tasks EXCEPT
                          ![i].lookups = @ + 1,
                          ![i].found = (returncode = 0),
                          ![i].wake = IF returncode = 0 THEN @ ELSE now + PollInterval,
                          ![i].pc = IF returncode = 0 THEN "confirmed" ELSE "loop"]
       ELSE tasks' = [tasks EXCEPT ![i].pc = "confirmed"]
    /\ UNCHANGED <<xvars, config, args, gh, fs, orgDirs, initial, local_repos, github_repos,
                   pc, todo, result, log, now, seen, pending_moves, lock, on_transfer>>

\* variant: a lookup that fails for another reason than "not found" gives up
Poll_ErrorEndsPoll(i) ==
    /\ pc = "watch"
    /\ tasks[i].pc = "loop"
    /\ now >= tasks[i].wake
    /\ IF now - tasks[i].start < PollTimeout
       THEN \E returncode \in LookupAnswers :
              tasks' = [tasks EXCEPT
                          ![i].lookups = @ + 1,
                          ![i].found = (returncode = 0),
                          ![i].wake = IF returncode = 0 THEN @ ELSE now + PollInterval,
                          ![i].pc = IF returncode = 0 THEN "confirmed"
                                    ELSE IF returncode = 1 THEN "loop" ELSE "timed_out"]
       ELSE tasks' = [tasks EXCEPT ![i].pc = "timed_out"]
    /\ UNCHANGED <<xvars, config, args, gh, fs, orgDirs, initial, local_repos, github_repos,
                   pc, todo, result, log, now, seen, pending_moves, lock, on_transfer>>

\* variant: the loop looks again at once instead of sleeping
Poll_NoSleep(i) ==
    /\ pc = "watch"
    /\ tasks[i].pc = "loop"
    /\ now >= tasks[i].wake
    /\ IF now - tasks[i].start < PollTimeout
       THEN \E returncode \in LookupAnswers :
              tasks' = [tasks EXCEPT
                          ![i].lookups = @ + 1,
                          ![i].found = (returncode = 0),
                          ![i].pc = IF returncode = 0 THEN "confirmed" ELSE "loop"]
       ELSE tasks' = [tasks EXCEPT ![i].pc = "timed_out"]
    /\ UNCHANGED <<xvars, config, args, gh, fs, orgDirs, initial, local_repos, github_repos,
                   pc, todo, result, log, now, seen, pending_moves, lock, on_transfer>>

\* transfer.py 119-130: once the sleep of the previous round is over, the
\* loop test, then one `gh repo view`; a failed lookup sleeps PollInterval
Poll(i) ==
    /\ pc = "watch"
    /\ tasks[i].pc = "loop"
    /\ now >= tasks[i].wake
    /\ IF now - tasks[i].start < PollTimeout
       THEN \E returncode \in LookupAnswers :
              tasks' = [tasks EXCEPT
                          ![i].lookups = @ + 1,
                          ![i].found = (returncode = 0),
                          ![i].wake = IF returncode = 0 THEN @ ELSE now + PollInterval,
                          ![i].pc = IF returncode = 0 THEN "confirmed" ELSE "loop"]
       ELSE tasks' = [tasks EXCEPT ![i].pc = "timed_out"]
    /\ UNCHANGED <<xvars, config, args, gh, fs, orgDirs, initial, local_repos, github_repos,
                   pc, todo, result, log, now, seen, pending_moves, lock, on_transfer>>

\* variant: git runs in the process's working directory, not in dest_path
UpdateRemote_InCwd(i) ==
    /\ pc = "watch"
    /\ tasks[i].pc = "confirmed"
    /\ LET rel == <<"other", "tools">>
           new_url == build_github_url(tasks[i].dest_org, tasks[i].repo,
                                       config.clone_protocol)
       IN  \E git_ok \in BOOLEAN :
             IF config.auto_update_remotes /\ is_git_dir(tasks[i].dest_path) /\ git_ok
             THEN /\ fs' = [fs EXCEPT ![rel].url = new_url]
                  /\ tasks' = [tasks EXCEPT ![i].rewrote = TRUE, ![i].pc = "notify"]
             ELSE /\ (config.auto_update_remotes /\ is_git_dir(tasks[i].dest_path)) \/ git_ok
                  /\ tasks' = [tasks EXCEPT ![i].pc = "notify"]
                  /\ UNCHANGED fs
    /\ UNCHANGED <<xvars, config, args, gh, orgDirs, initial, local_repos, github_repos,
                   pc, todo, result, log, now, seen, pending_moves, lock, on_transfer>>

\* variant: a failed rewrite ends the workflow
UpdateRemote_FailureAborts(i) ==
    /\ pc = "watch"
    /\ tasks[i].pc = "confirmed"
    /\ LET rel == relative_to(tasks[i].dest_path, base_path)
           new_url == build_github_url(tasks[i].dest_org, tasks[i].repo,
                                       config.clone_protocol)
       IN  \E git_ok \in BOOLEAN :
             IF config.auto_update_remotes /\ is_git_dir(tasks[i].dest_path) /\ git_ok
             THEN /\ fs' = [fs EXCEPT ![rel].url = new_url]
                  /\ tasks' = [tasks EXCEPT ![i].rewrote = TRUE, ![i].pc = "notify"]
             ELSE /\ (config.auto_update_remotes /\ is_git_dir(tasks[i].dest_path)) \/ git_ok
                  /\ tasks' = [tasks EXCEPT
                                 ![i].pc = IF config.auto_update_remotes
                                           THEN "rewrite_failed" ELSE "notify"]
                  /\ UNCHANGED fs
    /\ UNCHANGED <<xvars, config, args, gh, orgDirs, initial, local_repos, github_repos,
                   pc, todo, result, log, now, seen, pending_moves, lock, on_transfer>>

\* watcher.py 143-149 with set_repo_remote_url (utils.py 34-46)
UpdateRemote(i) ==
    /\ pc = "watch"
    /\ tasks[i].pc = "confirmed"
    /\ LET rel == relative_to(tasks[i].dest_path, base_path)
           new_url == build_github_url(tasks[i].dest_org, tasks[i].repo,
                                       config.clone_protocol)
       IN  \E git_ok \in BOOLEAN :
             IF config.auto_update_remotes /\ is_git_dir(tasks[i].dest_path) /\ git_ok
             THEN /\ fs' = [fs EXCEPT ![rel].url = new_url]
                  /\ tasks' = [tasks EXCEPT ![i].rewrote = TRUE, ![i].pc = "notify"]
             ELSE /\ (config.auto_update_remotes /\ is_git_dir(tasks[i].dest_path)) \/ git_ok
                  /\ tasks' = [tasks EXCEPT ![i].pc = "notify"]
                  /\ UNCHANGED fs
    /\ UNCHANGED <<xvars, config, args, gh, orgDirs, initial, local_repos, github_repos,
                   pc, todo, result, log, now, seen, pending_moves, lock, on_transfer>>

\* variant: the callback is invoked when the thread ends, whatever its way
Callback_AtEveryEnd(i) ==
    /\ pc = "watch"
    /\ tasks[i].pc \in {"notify", "timed_out"}
    /\ tasks' = [tasks EXCEPT
                   ![i].called = on_transfer,
                   ![i].callback_args =
                       IF on_transfer
                       THEN <<tasks[i].src_org, tasks[i].dest_org, tasks[i].repo>>
                       ELSE @,
                   ![i].pc = "done"]
    /\ UNCHANGED <<xvars, config, args, gh, fs, orgDirs, initial, local_repos, github_repos,
                   pc, todo, result, log, now, seen, pending_moves, lock, on_transfer>>

\* watcher.py 151-152: self.on_transfer(src_org, dest_org, repo) when given
Callback(i) ==
    /\ pc = "watch"
    /\ tasks[i].pc = "notify"
    /\ tasks' = [tasks EXCEPT
                   ![i].called = on_transfer,
                   ![i].callback_args =
                       IF on_transfer
                       THEN <<tasks[i].src_org, tasks[i].dest_org, tasks[i].repo>>
                       ELSE @,
                   ![i].pc = "done"]
    /\ UNCHANGED <<xvars, config, args, gh, fs, orgDirs, initial, local_repos, github_repos,
                   pc, todo, result, log, now, seen, pending_moves, lock, on_transfer>>

\* time passes
Tick ==
    /\ pc = "watch"
    /\ now < MaxTime
    /\ now' = now + 1
    /\ UNCHANGED <<xvars, config, args, gh, fs, orgDirs, initial, local_repos, github_repos,
                   pc, todo, result, log, seen, tasks, pending_moves, lock, on_transfer>>

\* remote URLs a moved working copy may carry: its former owner, its new
\* owner, a foreign host, no origin
UrlChoices(src_org, dest_org, name) ==
    {build_github_url(src_org, name, "ssh"),
     build_github_url(dest_org, name, "https"),
     <<"git@gitlab.com:", src_org, "/", name, ".git">>,
     Nothing}

(* ---------------------------- RepoWatcher ----------------------------- *)
\* variant: start does not look at _running
start_NoRunningCheck(w) ==
    IF ~w.base_exists THEN w
    ELSE [w EXCEPT !.observer = "Observer", !.live = @ + 1, !.running = TRUE]

\* RepoWatcher.start: a new observer is scheduled on base_path and started
start(w) ==
    IF w.running THEN w
    ELSE IF ~w.base_exists THEN w
    ELSE [w EXCEPT !.observer = "Observer", !.live = @ + 1, !.running = TRUE]

\* variant: stop forgets the observer without stopping it
stop_DropsObserver(w) ==
    [w EXCEPT !.observer = None, !.running = FALSE]

\* RepoWatcher.stop: the observer it holds is stopped, joined and forgotten
stop(w) ==
    IF w.observer # None
    THEN [w EXCEPT !.observer = None, !.live = @ - 1, !.running = FALSE]
    ELSE [w EXCEPT !.running = FALSE]

\* the watch session starts: base/other/tools and base/acme/.github are
\* working copies that were just moved in, base/other/.github is a plain folder
HandlerInit ==
    /\ \E au \in BOOLEAN, proto \in {"ssh", "https"} : config = Config({}, au, proto)
    /\ \E u1 \in UrlChoices("acme", "other", "tools"),
          u2 \in {build_github_url("other", ".github", "ssh")} :
         fs = [q \in Paths |->
                 IF q = <<"other", "tools">>
                 THEN [WorkingCopy("other", "tools", TRUE) EXCEPT !.url = u1]
                 ELSE IF q = <<"acme", ".github">>
                 THEN [WorkingCopy("acme", ".github", TRUE) EXCEPT !.url = u2]
                 ELSE IF q = <<"other", ".github">>
                 THEN WorkingCopy("other", ".github", FALSE)
                 ELSE NoDir]
    /\ on_transfer \in BOOLEAN
    /\ orgDirs = Orgs
    /\ initial = [fs |-> fs, orgDirs |-> orgDirs]
    /\ args = [clone_missing |-> FALSE, move_misplaced |-> FALSE, dry_run |-> TRUE]
    /\ gh = [o \in Orgs |-> [returncode |-> 0, names |-> {}]]
    /\ local_repos = [o \in Orgs |-> <<>>]
    /\ github_repos = [o \in Orgs |-> <<>>]
    /\ pc = "watch"
    /\ todo = <<>>
    /\ result = EmptyResult
    /\ log = <<>>
    /\ now = 0
    /\ seen = 0
    /\ tasks = <<>>
    /\ pending_moves = <<>>
    /\ lock = 0
    /\ roundtrip = NoRoundTrip

\* the handler of a watcher that was started on an existing base path
WatchInit ==
    /\ HandlerInit
    /\ watcher = start(RepoWatcher(TRUE))

WatchNext ==
    \/ OnMovedFilter
    \/ Tick
    \/ \E i \in 1..Len(tasks) :
         \/ OnMovedLock(i)
         \/ OnMovedCheck(i)
         \/ OnMovedRecord(i)
         \/ Resolve(i)
         \/ Transfer(i)
         \/ Poll(i)
         \/ UpdateRemote(i)
         \/ Callback(i)

WatchSpec == WatchInit /\ [][WatchNext]_vars

(* ============================ watcher claims =========================== *)
TaskIds == 1..Len(tasks)
UnderBase(path) ==
    Len(path) >= Len(base_path) /\ SubSeq(path, 1, Len(base_path)) = base_path
\* the path is base/<org>/<name>
RepoLevel(path) == UnderBase(path) /\ Len(path) = Len(base_path) + 2
OrgOf(path) == path[Len(base_path) + 1]
\* the task passed the debounce check
Passed(i) == tasks[i].pc \notin {"lock", "check", "suppressed"}
\* the thread running _process_move was started for the task
Dispatched(i) == tasks[i].pc \notin {"lock", "check", "record", "suppressed"}
\* on_moved has returned for the task
Decided(i) == tasks[i].pc \notin {"lock", "check", "record"}
SameKey(i, j) ==
    tasks[i].src_path = tasks[j].src_path /\ tasks[i].dest_path = tasks[j].dest_path
Apart(i, j) ==
    IF tasks[i].t >= tasks[j].t THEN tasks[i].t - tasks[j].t ELSE tasks[j].t - tasks[i].t

\* C13: a handling task exists only for a directory move whose source and
\* destination both lie under the base path, are both depth-one children of
\* their organization folder, name different organizations, and whose
\* destination is a git working copy; every debounce entry belongs to such a
\* move, so a move inside one organization starts no workflow and adds no
\* debounce entry.
C13_FilterCorrectness ==
    /\ \A i \in TaskIds :
         LET event == tasks[i].event
         IN  /\ event.kind = "DirMovedEvent"
             /\ RepoLevel(event.src_path)
             /\ RepoLevel(event.dest_path)
             /\ OrgOf(event.src_path) # OrgOf(event.dest_path)
             /\ <<OrgOf(event.dest_path), event.dest_path[Len(base_path) + 2]>> \in Paths
             /\ fs[<<OrgOf(event.dest_path), event.dest_path[Len(base_path) + 2]>>].git
             /\ tasks[i].src_path = event.src_path
             /\ tasks[i].dest_path = event.dest_path
             /\ tasks[i].src_org = OrgOf(event.src_path)
             /\ tasks[i].dest_org = OrgOf(event.dest_path)
    /\ \A key \in DOMAIN pending_moves :
         \E i \in TaskIds : Passed(i) /\ key = move_key(tasks[i])
    /\ Len(tasks) <= seen

\* a notification was accepted and dispatched, another one was filtered out
C13_Witness ==
    /\ \E i \in TaskIds : Dispatched(i)
    /\ seen > Len(tasks)

\* C14: of two accepted notifications with the same (source, destination),
\* observed less than debounce_seconds apart, exactly one is dispatched;
\* observed at least debounce_seconds apart, both are dispatched.
C14_DebounceDedup ==
    \A i, j \in TaskIds :
        (/\ i < j
         /\ SameKey(i, j)
         /\ Decided(i) /\ Decided(j)
         /\ \A k \in TaskIds \ {i, j} : ~SameKey(i, k))
        => IF Apart(i, j) < debounce_seconds
           THEN Dispatched(i) # Dispatched(j)
           ELSE Dispatched(i) /\ Dispatched(j)

\* a repeat seen one time unit after the first sighting was suppressed
C14_Witness ==
    \E i, j \in TaskIds :
        /\ SameKey(i, j)
        /\ Dispatched(i)
        /\ tasks[j].pc = "suppressed"
        /\ tasks[j].t - tasks[i].t = 1

\* the other half: a repeat seen debounce_seconds later was dispatched too
C14_TwoDispatched ==
    \E i, j \in TaskIds :
        /\ i # j /\ SameKey(i, j)
        /\ Dispatched(i) /\ Dispatched(j)
        /\ tasks[j].t - tasks[i].t = debounce_seconds

\* C15: whatever the interleaving of on_moved calls, two calls with the same
\* key that both pass the debounce check read times at least
\* debounce_seconds apart.
C15_AtomicCheckThenRecord ==
    \A i, j \in TaskIds :
        (i # j /\ SameKey(i, j) /\ Passed(i) /\ Passed(j))
        => Apart(i, j) >= debounce_seconds

\* two calls with one key ran at the same instant: one waited for the lock
\* and was then suppressed
C15_Witness ==
    \E i, j \in TaskIds :
        /\ i < j /\ SameKey(i, j)
        /\ tasks[i].t = tasks[j].t
        /\ tasks[i].pc = "suppressed"
        /\ Dispatched(j)

\* C16: the lock is held only between entering the with-block and recording
\* the sighting: its holder is never a task that reads a remote URL, sends a
\* transfer request, polls or rewrites a URL.
C16_LockOnlyForCheckAndRecord ==
    /\ lock \in {0} \cup TaskIds
    /\ lock # 0 => tasks[lock].pc \in {"check", "record"}
    /\ \A i \in TaskIds : tasks[i].pc \in {"check", "record"} => lock = i

\* a notification was accepted and dispatched while an earlier workflow was in
\* its confirmation poll
C16_Witness ==
    \E i, j \in TaskIds :
        /\ tasks[i].pc = "loop"
        /\ tasks[j].pc = "resolve"
        /\ tasks[j].t > tasks[i].start

\* the thread of the task has read the remote URL and decided on it
Resolved(i) == Dispatched(i) /\ tasks[i].pc # "resolve"
\* nothing of the workflow after the ownership check has happened
NothingAfterRequest(i) ==
    /\ tasks[i].start = -1
    /\ tasks[i].wake = -1
    /\ tasks[i].lookups = 0
    /\ ~tasks[i].found
    /\ ~tasks[i].rewrote
    /\ ~tasks[i].called
OwnerIn(url) == parse_github_remote(url)[1]
Readable(url) == url # Nothing /\ url # <<>> /\ parse_github_remote(url) # Nothing
Answered(i) == tasks[i].response # NoResponse
AlreadyPending(i) ==
    /\ Answered(i)
    /\ tasks[i].response.returncode # 0
    /\ "transfer is already pending" \in tasks[i].response.stderr
Rejected(i) ==
    /\ Answered(i)
    /\ tasks[i].response.returncode # 0
    /\ "transfer is already pending" \notin tasks[i].response.stderr

\* C17: a workflow sends a transfer request only after it read and parsed the
\* remote URL of the destination folder and found the source organization as
\* owner; when the URL is unreadable, unparsable or names another owner, the
\* workflow has ended without request, poll, rewrite or callback.
C17_OwnershipGate ==
    \A i \in TaskIds :
        /\ tasks[i].requests > 0 \/ Answered(i)
             => /\ Resolved(i)
                /\ Readable(tasks[i].remote_url)
                /\ OwnerIn(tasks[i].remote_url) = tasks[i].src_org
        /\ (Resolved(i) /\ ~Readable(tasks[i].remote_url))
             => tasks[i].pc = "failed_resolve"
        /\ (Resolved(i) /\ Readable(tasks[i].remote_url)
              /\ OwnerIn(tasks[i].remote_url) # tasks[i].src_org)
             => tasks[i].pc = "failed_owner"
        /\ tasks[i].pc \in {"failed_resolve", "failed_owner"}
             => /\ tasks[i].requests = 0
                /\ ~Answered(i)
                /\ NothingAfterRequest(i)
        /\ ~Dispatched(i) \/ tasks[i].pc = "resolve"
             => tasks[i].requests = 0 /\ ~Answered(i) /\ NothingAfterRequest(i)

\* the moved working copy names its new organization as owner: the workflow
\* stopped at the ownership check
C17_Witness ==
    \E i \in TaskIds :
        /\ tasks[i].pc = "failed_owner"
        /\ OwnerIn(tasks[i].remote_url) = tasks[i].dest_org

\* an unreadable and an unparsable remote stop the workflow as well
C17_UnresolvedCase ==
    \E i \in TaskIds :
        tasks[i].pc = "failed_resolve" /\ tasks[i].remote_url # Nothing

\* C18: a transfer request answered "transfer is already pending" counts as
\* success: the workflow goes on to confirmation polling and is never in the
\* failed state.
C18_AlreadyPendingIsSuccess ==
    \A i \in TaskIds :
        AlreadyPending(i)
        => /\ tasks[i].pc \in {"loop", "timed_out", "confirmed", "notify", "done"}
           /\ tasks[i].start >= 0
           /\ tasks[i].requests = 1

\* a workflow answered "already pending" polls for the confirmation
C18_Witness ==
    \E i \in TaskIds : AlreadyPending(i) /\ tasks[i].pc = "loop"

\* C19: a transfer request that fails for a cooldown or for anything else
\* than "already pending" ends the workflow: no poll, no rewrite of the
\* remote URL, no callback, and exactly one request.
C19_RejectedIsTerminal ==
    \A i \in TaskIds :
        /\ Rejected(i)
             => /\ tasks[i].pc = "transfer_failed"
                /\ tasks[i].requests = 1
                /\ NothingAfterRequest(i)
        /\ tasks[i].pc = "transfer_failed" => Rejected(i)
        /\ tasks[i].requests <= 1

\* a request was rejected for a cooldown while automatic URL maintenance and
\* the callback were both enabled
C19_Witness ==
    \E i \in TaskIds :
        /\ tasks[i].pc = "transfer_failed"
        /\ "cooldown" \in tasks[i].response.stderr
        /\ config.auto_update_remotes
        /\ on_transfer

\* C20: a workflow whose poll ran out of time is in the timed-out state, has
\* seen no successful lookup, rewrote no URL and called no callback; a workflow
\* goes past the poll, and rewrites the URL, only after a successful lookup.
C20_TimeoutSafety ==
    \A i \in TaskIds :
        /\ tasks[i].pc = "timed_out"
             => /\ ~tasks[i].found
                /\ ~tasks[i].rewrote
                /\ ~tasks[i].called
                /\ now - tasks[i].start >= PollTimeout
        /\ tasks[i].pc \in {"confirmed", "notify", "done"} => tasks[i].found
        /\ tasks[i].rewrote => tasks[i].found
        /\ tasks[i].called => tasks[i].found

\* a poll timed out with automatic URL maintenance enabled: the working copy
\* still has the URL the workflow read
C20_Witness ==
    \E i \in TaskIds :
        /\ tasks[i].pc = "timed_out"
        /\ config.auto_update_remotes
        /\ get_repo_remote_url(tasks[i].dest_path) = tasks[i].remote_url

\* the thread of the task has ended without a confirmed transfer
EndedWithoutSuccess(i) ==
    tasks[i].pc \in {"failed_resolve", "failed_owner", "transfer_failed", "timed_out"}

\* C21: the callback is invoked only by a workflow whose transfer request
\* passed, whose poll found the repository and which has taken the remote-URL
\* step; it gets (source organization, destination organization, name parsed
\* from the remote URL); the thread ends with the call, so there is one call at
\* most; a workflow that timed out, was rejected or failed never calls it.
C21_CallbackOnlyOnSuccess ==
    \A i \in TaskIds :
        /\ tasks[i].called
             => /\ on_transfer
                /\ tasks[i].pc = "done"
                /\ tasks[i].found
                /\ tasks[i].requests = 1
                /\ transfer_repo(tasks[i].response)
                /\ tasks[i].callback_args =
                     <<OrgOf(tasks[i].src_path), OrgOf(tasks[i].dest_path),
                       parse_github_remote(tasks[i].remote_url)[2]>>
        /\ ~tasks[i].called => tasks[i].callback_args = Nothing
        /\ EndedWithoutSuccess(i) => ~tasks[i].called
        /\ tasks[i].pc \in {"confirmed", "notify"} => ~tasks[i].called
        /\ (tasks[i].pc = "done" /\ on_transfer) => tasks[i].called

\* a workflow ran to its end and called the callback for the moved repository
C21_Witness ==
    \E i \in TaskIds :
        /\ tasks[i].pc = "done"
        /\ tasks[i].called
        /\ tasks[i].rewrote
        /\ tasks[i].callback_args = <<"acme", "other", "tools">>

\* C22: once the transfer is confirmed the workflow goes on to the callback
\* and ends, whether the rewrite of the remote URL succeeded, failed or was
\* not asked for; with auto_update_remotes off no URL is rewritten.
C22_RewriteFailureNotFatal ==
    /\ \A i \in TaskIds :
         /\ (tasks[i].found /\ tasks[i].pc # "confirmed")
              => tasks[i].pc \in {"notify", "done"}
         /\ tasks[i].pc = "done" => tasks[i].found /\ tasks[i].called = on_transfer
         /\ tasks[i].rewrote => config.auto_update_remotes
    /\ ~config.auto_update_remotes => fs = initial.fs

\* the rewrite failed after a confirmed transfer, the callback was still called
C22_Witness ==
    \E i \in TaskIds :
        /\ config.auto_update_remotes
        /\ ~tasks[i].rewrote
        /\ tasks[i].pc = "done"
        /\ tasks[i].called
        /\ get_repo_remote_url(tasks[i].dest_path) = tasks[i].remote_url

\* with auto_update_remotes off the workflow ends the same way
C22_DisabledCase ==
    \E i \in TaskIds :
        ~config.auto_update_remotes /\ tasks[i].pc = "done" /\ tasks[i].called

(* ----------------- the watcher under fair scheduling ------------------ *)
\* a poll loop still waits for the clock
PollWaits(i) ==
    /\ tasks[i].pc = "loop"
    /\ now < tasks[i].wake \/ now - tasks[i].start < PollTimeout

\* time passes: the clock is capped at MaxTime only once no poll waits for it
LiveTick ==
    /\ pc = "watch"
    /\ now < MaxTime \/ \E i \in 1..Len(tasks) : PollWaits(i)
    /\ now' = now + 1
    /\ UNCHANGED <<xvars, config, args, gh, fs, orgDirs, initial, local_repos, github_repos,
                   pc, todo, result, log, seen, tasks, pending_moves, lock, on_transfer>>

\* the next step of on_moved for the i-th accepted notification
HandlerStep(i) ==
    /\ i \in 1..Len(tasks)
    /\ OnMovedLock(i) \/ OnMovedCheck(i) \/ OnMovedRecord(i)

\* the next step of the i-th _process_move thread
ThreadStep(i) ==
    /\ i \in 1..Len(tasks)
    /\ Resolve(i) \/ Transfer(i) \/ Poll(i) \/ UpdateRemote(i) \/ Callback(i)

\* a watch session in which one move is accepted: further notifications are
\* delivered only until then
LiveNotify ==
    /\ tasks = <<>>
    /\ OnMovedFilter

\* the session runs with Config's defaults and with a callback
LiveInit ==
    /\ WatchInit
    /\ config.auto_update_remotes
    /\ config.clone_protocol = "ssh"
    /\ on_transfer

LiveNext ==
    \/ LiveNotify
    \/ LiveTick
    \/ \E i \in 1..MaxEvents : HandlerStep(i)
    \/ \E i \in 1..MaxEvents : ThreadStep(i)

\* every started thread keeps being scheduled, every call it makes returns,
\* and the clock advances
LiveSpec ==
    /\ LiveInit
    /\ [][LiveNext]_vars
    /\ WF_vars(LiveTick)
    /\ \A i \in 1..MaxEvents : WF_vars(ThreadStep(i))

Terminal(i) ==
    tasks[i].pc \in {"failed_resolve", "failed_owner", "transfer_failed", "timed_out", "done"}

\* lookups are PollInterval apart and all begin before the timeout
PollBounded(i) ==
    /\ tasks[i].lookups >= 0
    /\ tasks[i].lookups > 0 => (tasks[i].lookups - 1) * PollInterval < PollTimeout
    /\ tasks[i].pc = "loop" => tasks[i].wake - tasks[i].start >= tasks[i].lookups * PollInterval
    /\ tasks[i].found => tasks[i].lookups > 0 /\ tasks[i].pc \in {"confirmed", "notify", "done"}
    /\ tasks[i].pc = "timed_out" => now - tasks[i].start >= PollTimeout

\* C23: under fair scheduling every dispatched workflow reaches a terminal
\* state; its poll makes finitely many lookups, PollInterval apart, and ends at
\* the first successful one or when the elapsed time has reached PollTimeout.
C23_WorkflowsTerminate ==
    /\ [](\A i \in TaskIds : PollBounded(i))
    /\ \A i \in 1..MaxEvents :
         (i \in TaskIds /\ Dispatched(i)) ~> (i \in TaskIds /\ Terminal(i))

\* a poll looked twice, PollInterval apart, and then ran out of time
C23_Witness ==
    \E i \in TaskIds :
        /\ tasks[i].pc = "timed_out"
        /\ tasks[i].lookups = 2
        /\ now - tasks[i].start >= PollTimeout

\* the working copy the task is about, as a path of the disk
DestOf(i) == relative_to(tasks[i].dest_path, base_path)
\* no other workflow is about the same working copy
OwnRepository(i) == \A j \in TaskIds \ {i} : DestOf(j) # DestOf(i)
\* where the workflow stands, computed from what its own collaborators
\* answered: the URL its working copy had, the answer to its transfer request,
\* the result of its lookups
OwnOutcome(i) ==
    LET url == initial.fs[DestOf(i)].url
    IN  IF ~Readable(url) THEN {"failed_resolve"}
        ELSE IF OwnerIn(url) # tasks[i].src_org THEN {"failed_owner"}
        ELSE IF ~Answered(i) THEN {"transfer"}
        ELSE IF ~transfer_repo(tasks[i].response) THEN {"transfer_failed"}
        ELSE IF tasks[i].found THEN {"confirmed", "notify", "done"}
        ELSE {"loop", "timed_out"}

\* C24: a workflow that is the only one for its repository reads the URL its
\* working copy had at the start, stands where its own collaborators' answers
\* put it, and its working copy carries the URL this workflow left there,
\* whatever the workflows of other repositories do or fail at.
C24_WorkflowIsolation ==
    \A i \in TaskIds :
        OwnRepository(i)
        => /\ Resolved(i) => /\ tasks[i].remote_url = initial.fs[DestOf(i)].url
                             /\ tasks[i].pc \in OwnOutcome(i)
           /\ fs[DestOf(i)].url =
                IF tasks[i].rewrote
                THEN build_github_url(OrgOf(tasks[i].dest_path),
                                      parse_github_remote(initial.fs[DestOf(i)].url)[2],
                                      config.clone_protocol)
                ELSE initial.fs[DestOf(i)].url
           /\ tasks[i].called => tasks[i].pc = "done" /\ on_transfer

\* two workflows of different repositories polled at the same time; one ran
\* out of time, the other one completed with rewrite and callback
C24_Witness ==
    \E i, j \in TaskIds :
        /\ DestOf(i) # DestOf(j)
        /\ tasks[i].pc = "timed_out"
        /\ tasks[j].pc = "done" /\ tasks[j].rewrote /\ tasks[j].called
        /\ tasks[i].start <= tasks[j].start
        /\ tasks[j].start < tasks[i].start + PollTimeout

\* ... and one stopped at the ownership check while the other one completed
C24_MismatchCase ==
    \E i, j \in TaskIds :
        /\ DestOf(i) # DestOf(j)
        /\ tasks[i].pc = "failed_owner"
        /\ tasks[j].pc = "done" /\ tasks[j].rewrote

\* the workflow has sent its transfer request and has not ended
InFlight(i) == tasks[i].requests = 1 /\ tasks[i].pc \in {"loop", "confirmed", "notify"}

\* C25: nothing but the debounce record of the same (source, destination)
\* holds a notification back: a suppressed notification has a sighting of its
\* own key that passed less than debounce_seconds before it, so a notification
\* for a repository whose workflow is still polling starts a second workflow
\* with a transfer request of its own.
C25_SecondWorkflowPossible ==
    \A j \in TaskIds :
        /\ tasks[j].pc = "suppressed"
             => \E i \in TaskIds \ {j} :
                   /\ SameKey(i, j)
                   /\ Passed(i)
                   /\ tasks[i].t <= tasks[j].t
                   /\ tasks[j].t - tasks[i].t < debounce_seconds
        /\ tasks[j].requests \in {0, 1}
        /\ tasks[j].requests = 1 <=> Answered(j)

\* two workflows for one repository are in flight, each with its own transfer
\* request; the second was accepted while the first was polling
C25_Witness ==
    \E i, j \in TaskIds :
        /\ i # j
        /\ DestOf(i) = DestOf(j)
        /\ tasks[i].pc = "loop" /\ InFlight(i)
        /\ tasks[j].pc = "loop" /\ InFlight(j)
        /\ tasks[j].t >= tasks[i].t + debounce_seconds
        /\ tasks[j].t >= tasks[i].start

(* ------------------------ the detector on its own ---------------------- *)
MaxSightings == 3       \* move notifications delivered while no thread has run yet

DetectNotify == Notify(MaxSightings)

\* on_moved alone: the threads it starts have not been scheduled yet
DetectNext ==
    \/ DetectNotify
    \/ Tick
    \/ \E i \in 1..Len(tasks) : OnMovedLock(i)
    \/ \E i \in 1..Len(tasks) : OnMovedCheck(i)
    \/ \E i \in 1..Len(tasks) : OnMovedRecord(i)

DetectSpec == LiveInit /\ [][DetectNext]_vars

\* the sightings of a key that were recorded
Recorded(key) == {i \in TaskIds : Dispatched(i) /\ move_key(tasks[i]) = key}

\* C26: pending_moves holds, for every key, the time of its most recent
\* dispatch and nothing else: a suppressed repeat leaves it alone.  So of three
\* sightings of one key at t0 < t1 < t2 with t1 - t0 < debounce_seconds and
\* t2 - t0 >= debounce_seconds, the third is dispatched although it comes less
\* than debounce_seconds after the second.
C26_SuppressedDoesNotRefresh ==
    /\ \A key \in DOMAIN pending_moves :
         /\ Recorded(key) # {}
         /\ \E i \in Recorded(key) : pending_moves[key] = tasks[i].t
         /\ \A i \in Recorded(key) : pending_moves[key] >= tasks[i].t
    /\ \A i \in TaskIds : Dispatched(i) => move_key(tasks[i]) \in DOMAIN pending_moves
    /\ \A i, j, k \in TaskIds :
         (/\ SameKey(i, j) /\ SameKey(j, k)
          /\ Cardinality({i, j, k}) = 3
          /\ \A m \in TaskIds \ {i, j, k} : ~SameKey(i, m)
          /\ Dispatched(i) /\ Decided(j) /\ Decided(k)
          /\ tasks[i].t < tasks[j].t /\ tasks[j].t < tasks[k].t
          /\ tasks[j].t - tasks[i].t < debounce_seconds
          /\ tasks[k].t - tasks[i].t >= debounce_seconds)
         => tasks[j].pc = "suppressed" /\ Dispatched(k)

\* three sightings of one key at 0, 1 and 2: the second was suppressed, the
\* third dispatched, and the record shows the third
C26_Witness ==
    \E i, j, k \in TaskIds :
        /\ SameKey(i, j) /\ SameKey(j, k)
        /\ Dispatched(i) /\ tasks[j].pc = "suppressed" /\ Dispatched(k)
        /\ tasks[j].t = tasks[i].t + 1
        /\ tasks[k].t = tasks[j].t + 1
        /\ pending_moves[move_key(tasks[k])] = tasks[k].t

\* what a step does to a workflow in its poll loop: nothing, a failed lookup
\* that leaves it in the loop and puts it to sleep, the successful lookup, or
\* the end of the loop once PollTimeout has elapsed
PollStepAllowed(i) ==
    \/ tasks'[i] = tasks[i]
    \/ /\ tasks'[i].pc = "loop"
       /\ ~tasks'[i].found
       /\ tasks'[i].lookups = tasks[i].lookups + 1
       /\ tasks'[i].wake = now + PollInterval
       /\ now - tasks[i].start < PollTimeout
    \/ /\ tasks'[i].pc = "confirmed"
       /\ tasks'[i].found
       /\ tasks'[i].lookups = tasks[i].lookups + 1
       /\ now - tasks[i].start < PollTimeout
    \/ /\ tasks'[i].pc = "timed_out"
       /\ ~tasks'[i].found
       /\ tasks'[i].lookups = tasks[i].lookups
       /\ now - tasks[i].start >= PollTimeout

\* C27: a lookup that fails, for whatever reason, leaves the workflow in its
\* poll loop; the loop is left only by a successful lookup or because
\* PollTimeout has elapsed, and never into a failure state.
C27_FailedLookupKeepsPolling ==
    [][\A i \in TaskIds : tasks[i].pc = "loop" => PollStepAllowed(i)]_vars

\* a lookup failed, a later one succeeded
C27_Witness ==
    \E i \in TaskIds :
        /\ tasks[i].found
        /\ tasks[i].lookups = 2
        /\ tasks[i].wake = tasks[i].start + PollInterval

(* ------------------------ the URL round trip -------------------------- *)
\* owner and repository names without "/": ordinary ones, the host's own
\* name, a name ending in it, names ending in ".git" and the empty name
UrlNames == {"acme", "tools", ".github", "github.com", "x.github.com", "tools.git", ".git", ""}

UrlInit ==
    /\ HandlerInit
    /\ watcher = RepoWatcher(TRUE)
    /\ config.auto_update_remotes /\ config.clone_protocol = "ssh" /\ on_transfer
    /\ fs[<<"other", "tools">>].url = build_github_url("acme", "tools", "ssh")

\* a workflow's rewrite names (owner, repo) in the configured protocol
UrlInput ==
    /\ roundtrip.stage = "idle"
    /\ \E owner \in UrlNames, repo \in UrlNames, protocol \in {"ssh", "https"} :
         roundtrip' = [NoRoundTrip EXCEPT !.owner = owner, !.repo = repo,
                                          !.protocol = protocol, !.stage = "input"]
    /\ UNCHANGED <<watcher, config, args, gh, fs, orgDirs, initial, local_repos,
                   github_repos, pc, todo, result, log, wvars>>

UrlBuild ==
    /\ roundtrip.stage = "input"
    /\ roundtrip' = [roundtrip EXCEPT
                       !.url = build_github_url(roundtrip.owner, roundtrip.repo,
                                                roundtrip.protocol),
                       !.stage = "built"]
    /\ UNCHANGED <<watcher, config, args, gh, fs, orgDirs, initial, local_repos,
                   github_repos, pc, todo, result, log, wvars>>

UrlParse ==
    /\ roundtrip.stage = "built"
    /\ roundtrip' = [roundtrip EXCEPT !.parsed = parse_github_remote(roundtrip.url),
                                      !.stage = "parsed"]
    /\ UNCHANGED <<watcher, config, args, gh, fs, orgDirs, initial, local_repos,
                   github_repos, pc, todo, result, log, wvars>>

\* a later move out of the owner's folder resolves the rewritten URL
UrlVerify ==
    /\ roundtrip.stage = "parsed"
    /\ roundtrip' = [roundtrip EXCEPT
                       !.verdict = ResolveOutcome(roundtrip.url, roundtrip.owner),
                       !.stage = "verified"]
    /\ UNCHANGED <<watcher, config, args, gh, fs, orgDirs, initial, local_repos,
                   github_repos, pc, todo, result, log, wvars>>

UrlNext == UrlInput \/ UrlBuild \/ UrlParse \/ UrlVerify

UrlSpec == UrlInit /\ [][UrlNext]_vars

EndsWith(name, token) ==
    Tokens(name) # <<>> /\ Tokens(name)[Len(Tokens(name))] = token

\* the names the claim speaks of
Covered == ~EndsWith(roundtrip.repo, ".git")

RoundTripCloses ==
    /\ roundtrip.stage \in {"parsed", "verified"}
          => roundtrip.parsed = <<roundtrip.owner, roundtrip.repo>>
    /\ roundtrip.stage = "verified" => roundtrip.verdict = "transfer"

\* C28 as stated: for every owner and repository name without "/", the name
\* not ending in ".git", and both protocols, the URL built for (owner, repo)
\* parses back to (owner, repo), and a later move out of the owner's folder
\* passes the ownership verification
C28_RoundTripAllOwners == Covered => RoundTripCloses

\* C28 amended: the same, for owners that do not end in "github.com" when
\* the protocol is https
C28_RoundTrip ==
    (Covered /\ ~(roundtrip.protocol = "https" /\ EndsWith(roundtrip.owner, "github.com")))
        => RoundTripCloses

C28_Witness ==
    /\ roundtrip.stage = "verified"
    /\ roundtrip.protocol = "https"
    /\ roundtrip.owner = "acme"
    /\ roundtrip.repo = ".github"
    /\ roundtrip.parsed = <<"acme", ".github">>
    /\ roundtrip.verdict = "transfer"

(* ---------------------- recorded moves on disk ------------------------ *)
\* the folder a recorded move names is now at base/toOrg/name
RelocatedTo(m) ==
    /\ fs[<<m[3], m[1]>>] # NoDir
    /\ fs[<<m[3], m[1]>>].id = initial.fs[<<m[2], m[1]>>].id

\* what was at base/toOrg/name before the run is as it was
DestinationUntouched(m) ==
    initial.fs[<<m[3], m[1]>>] # NoDir => fs[<<m[3], m[1]>>] = initial.fs[<<m[3], m[1]>>]

\* C29: after a non-dry-run sync with move_misplaced, every (name, fromOrg,
\* toOrg) in result.moved is at base/toOrg/name and no longer at
\* base/fromOrg/name, and a working copy that was at base/toOrg/name before
\* the run is unaltered, also when the name exists under both organizations
C29_MovedIsRelocated ==
    (pc = "done" /\ ~args.dry_run /\ args.move_misplaced) =>
        \A k \in 1..Len(result.moved) :
            /\ RelocatedTo(result.moved[k])
            /\ fs[<<result.moved[k][2], result.moved[k][1]>>] = NoDir
            /\ DestinationUntouched(result.moved[k])

(* ----------------------- RepoWatcher lifecycle ------------------------ *)
\* a watcher was constructed over a base path that exists or not
LifeInit ==
    /\ HandlerInit
    /\ \E exists \in BOOLEAN : watcher = RepoWatcher(exists)

\* a caller's start()
Start ==
    /\ watcher' = start(watcher)
    /\ watcher' # watcher
    /\ UNCHANGED <<roundtrip, config, args, gh, fs, orgDirs, initial, local_repos,
                   github_repos, pc, todo, result, log, wvars>>

\* a caller's stop()
Stop ==
    /\ watcher' = stop(watcher)
    /\ watcher' # watcher
    /\ UNCHANGED <<roundtrip, config, args, gh, fs, orgDirs, initial, local_repos,
                   github_repos, pc, todo, result, log, wvars>>

\* run_forever is called: it calls start() and enters its loop
RunForeverBegin ==
    /\ watcher.rf # "loop"
    /\ watcher' = [start(watcher) EXCEPT !.rf = "loop", !.waited = FALSE]
    /\ UNCHANGED <<roundtrip, config, args, gh, fs, orgDirs, initial, local_repos,
                   github_repos, pc, todo, result, log, wvars>>

\* one test of `while self._running`: sleep, or leave through finally: stop()
RunForeverLoop ==
    /\ watcher.rf = "loop"
    /\ watcher' = IF watcher.running
                  THEN [watcher EXCEPT !.waited = TRUE]
                  ELSE [stop(watcher) EXCEPT !.rf = "returned"]
    /\ watcher' # watcher
    /\ UNCHANGED <<roundtrip, config, args, gh, fs, orgDirs, initial, local_repos,
                   github_repos, pc, todo, result, log, wvars>>

\* KeyboardInterrupt inside the loop: except, then finally: stop()
Interrupt ==
    /\ watcher.rf = "loop"
    /\ watcher' = [stop(watcher) EXCEPT !.rf = "returned"]
    /\ UNCHANGED <<roundtrip, config, args, gh, fs, orgDirs, initial, local_repos,
                   github_repos, pc, todo, result, log, wvars>>

\* a live observer dispatches a move notification to the handler's on_moved
Deliver ==
    /\ watcher.live > 0
    /\ OnMovedFilter

LifeNext ==
    \/ Start
    \/ Stop
    \/ RunForeverBegin
    \/ RunForeverLoop
    \/ Interrupt
    \/ Deliver

LifeSpec == LifeInit /\ [][LifeNext]_vars

is_running == watcher.running

LifecycleConsistent ==
    /\ is_running <=> watcher.observer # None
    /\ watcher.live = (IF watcher.observer # None THEN 1 ELSE 0)
    /\ ~watcher.base_exists => ~is_running /\ watcher.observer = None /\ ~watcher.waited

\* C30: is_running holds exactly when an observer is set; there is never a
\* second live observer; over a base path that does not exist the watcher
\* is not running, has no observer and run_forever never waits; and a
\* notification reaches the handler only while the watcher is running,
\* so none does after stop
C30_Lifecycle ==
    /\ []LifecycleConsistent
    /\ [][seen' # seen => is_running]_vars

C30_Witness ==
    /\ watcher.rf = "returned"
    /\ watcher.waited
    /\ ~is_running
    /\ watcher.observer = None
    /\ watcher.live = 0
    /\ seen = MaxEvents

C30_NoBaseCase ==
    /\ ~watcher.base_exists
    /\ watcher.rf = "returned"
    /\ ~watcher.waited

====
